---- MODULE Spec2Model ----
(***************************************************************************)
(* A model of the two problem-set scripts of the repository:               *)
(*   Problem-10/solution_set_10.py   (SWAPI records: projection, boarding, *)
(*                                    capture, dialogue merge, main)       *)
(*   Problem-9 assigenment/solution-set_09.py (NYT articles: key filter,   *)
(*                                    deduplicating accumulation, date     *)
(*                                    conversion, location and status)     *)
(*                                                                         *)
(* A Python str is the tuple of its characters; a Python value is a        *)
(* tagged record [t, v]; a dict is a function from its keys.               *)
(***************************************************************************)
EXTENDS Integers, Sequences, FiniteSets, TLC

VARIABLES
    call,       \* Problem 10 projectors: the call being made (function and arguments)
    http,       \* Problem 10 projectors: the HTTP exchanges the call performed
    result,     \* Problem 10 projectors: what the call returned or raised
    heap,       \* Problem 10 records: the dicts and lists of the program, by address
    returned,   \* Problem 10 records: what the last call on the records returned or raised
    boarded,    \* history: per starship, the (person, flag) pairs boarded, in call order
    captured,   \* history: per attacker, the preys captured, in call order
    inserted,   \* history: per person, the number of insert_dialogue calls
    frame,      \* Problem 10 main: its next statement, its local variables, what it wrote
    data,       \* Problem 9: the list of article records
    given,      \* history: the list of article records as it was loaded
    out         \* Problem 9: the last operation on the articles and its result

projectVars == <<call, http, result>>
recordVars == <<heap, returned, boarded, captured, inserted, frame>>
articleVars == <<data, given, out>>
vars ==
    <<call, http, result, heap, returned, boarded, captured, inserted, frame, data, given, out>>

----------------------------------------------------------------------------
(* Python values *)

PyNone == [t |-> "None", v |-> <<>>]
PyStr(s) == [t |-> "str", v |-> s]
PyList(l) == [t |-> "list", v |-> l]
PyDict(d) == [t |-> "dict", v |-> d]
PyInt(n) == [t |-> "int", v |-> n]

\* == on two values: values of different types are unequal
PyEq(a, b) == a.t = b.t /\ a.v = b.v

\* dict.get(key, default) on the dict d
Get(d, key, default) == IF key \in DOMAIN d THEN d[key] ELSE default

\* the dict d without the keys outside keys
Restrict(d, keys) == [k \in (DOMAIN d) \cap keys |-> d[k]]

\* a call returns a value or raises
Return(x) == [exc |-> "", val |-> x]
Raise(e) == [exc |-> e, val |-> PyNone]

\* str.startswith / the str operator "in"
StartsWith(sub, s) == Len(sub) <= Len(s) /\ SubSeq(s, 1, Len(sub)) = sub
Contains(sub, s) ==
    \E i \in 1..(Len(s) + 1) :
        i + Len(sub) - 1 <= Len(s) /\ SubSeq(s, i, i + Len(sub) - 1) = sub

EmptyStr == PyStr(<<>>)

----------------------------------------------------------------------------
(* Problem 10: the strings of the inputs *)

Scheme == <<"h", "t", "t", "p", "s", ":", "/", "/">>
ENDPOINT == Scheme \o <<"s", "w", "/", "a", "p", "i">>
SWAPI_PEOPLE == ENDPOINT \o <<"/", "p", "e", "o", "p", "l", "e", "/">>
SWAPI_PLANETS == ENDPOINT \o <<"/", "p", "l", "a", "n", "e", "t", "s", "/">>

sTatooine == <<"T", "a", "t", "o", "o", "i", "n", "e">>
sNaboo == <<"N", "a", "b", "o", "o">>

\* planet identifiers: a name, a locator, a text that holds a locator further
\* on, a near miss of the scheme, the bare scheme, the empty str
IdName == sTatooine
IdLocator == SWAPI_PLANETS \o <<"1", "/">>
IdEmbedded == <<"s", "e", "e", " ">> \o IdLocator
IdNearMiss == <<"h", "t", "t", "p", ":", "/", "/", "x">>
IdStrings == {IdName, IdLocator, IdEmbedded, IdNearMiss, Scheme, <<>>}

Urls == {SWAPI_PEOPLE, SWAPI_PLANETS}

PlanetKeys == {"name", "diameter", "climate", "terrain", "population"}

Tatooine ==
    [name |-> PyStr(sTatooine), diameter |-> PyStr(<<"1", "0", "4", "6", "5">>),
     climate |-> PyStr(<<"a", "r", "i", "d">>),
     terrain |-> PyStr(<<"d", "e", "s", "e", "r", "t">>),
     population |-> PyStr(<<"2", "0", "0", "0", "0", "0">>),
     gravity |-> PyStr(<<"1">>)]

Naboo ==
    [name |-> PyStr(sNaboo), diameter |-> PyStr(<<"1", "2", "1", "2", "0">>),
     climate |-> PyStr(<<"t", "e", "m", "p">>),
     terrain |-> PyStr(<<"h", "i", "l", "l", "s">>),
     population |-> PyStr(<<"4", "5">>),
     gravity |-> PyStr(<<"1">>)]

\* planet records as an endpoint may answer them: any subset of the fields
PlanetRecords == {Restrict(Tatooine, K) : K \in SUBSET (DOMAIN Tatooine)} \cup {Naboo}

\* the envelope of a search answer
Envelope(results) ==
    [count |-> PyInt(Len(results)), next |-> PyNone, previous |-> PyNone,
     results |-> PyList(results)]

Envelopes ==
    {Envelope(<<>>)}
        \cup {Envelope(<<PyDict(P)>>) : P \in PlanetRecords}
        \cup {Envelope(<<PyDict(P), PyDict(Naboo)>>) : P \in PlanetRecords}

----------------------------------------------------------------------------
(* Problem 10: get_swapi_resource, get_homeworld *)

\* query-string parameters: <<>> is None, else the pair <<key, value>>
NoParams == <<>>
SearchParams(text) == <<"search", text>>

\* the request get_swapi_resource sends
get_swapi_resource(url, params) ==
    IF params # NoParams
    THEN [url |-> url, params |-> params]
    ELSE [url |-> url, params |-> NoParams]

\* the decoded bodies an endpoint may answer a request with
Bodies(request) ==
    IF request.params # NoParams THEN Envelopes ELSE PlanetRecords

\* the request get_homeworld makes for a str identifier
homeworld_request(identifier, url) ==
    IF Contains(Scheme, identifier)
    THEN get_swapi_resource(identifier, NoParams)
    ELSE get_swapi_resource(url, SearchParams(identifier))

\* the "thinned" dict literal of get_homeworld
thin(swapi_result) ==
    [name |-> Get(swapi_result, "name", EmptyStr),
     diameter |-> Get(swapi_result, "diameter", EmptyStr),
     climate |-> Get(swapi_result, "climate", EmptyStr),
     terrain |-> Get(swapi_result, "terrain", EmptyStr),
     population |-> Get(swapi_result, "population", EmptyStr)]

\* get_homeworld(identifier, url), body being the answer to its request;
\* '"https://" in None' raises TypeError before any request is made
get_homeworld(identifier, url, body) ==
    IF identifier.t # "str"
    THEN Raise("TypeError")
    ELSE Return(PyDict(thin(body)))

\* the exchanges get_homeworld performs
homeworld_http(identifier, url, body) ==
    IF identifier.t # "str"
    THEN <<>>
    ELSE <<[request |-> homeworld_request(identifier.v, url), body |-> body]>>

\* the bodies the endpoint may answer get_homeworld's request with
homeworld_bodies(identifier, url) ==
    IF identifier.t # "str"
    THEN {Tatooine}
    ELSE Bodies(homeworld_request(identifier.v, url))

----------------------------------------------------------------------------
(* Problem 10: create_person, create_starship *)

PersonKeys ==
    {"name", "height", "mass", "birth_year", "eye_color", "homeworld", "dialogue"}
StarshipKeys == {"name", "model", "passengers", "max_atmosphering_speed", "length"}

sC3PO == <<"C", "-", "3", "P", "O">>
sR2D2 == <<"R", "2", "-", "D", "2">>
sVader == <<"D", "a", "r", "t", "h", " ", "V", "a", "d", "e", "r">>
sLeia == <<"L", "e", "i", "a">>

\* a people record of the API, and one that already carries a dialogue
swapi_person(name, homeworld) ==
    [name |-> PyStr(name), height |-> PyStr(<<"1", "6", "7">>),
     mass |-> PyStr(<<"7", "5">>), birth_year |-> PyStr(<<"1", "1", "2">>),
     eye_color |-> PyStr(<<"y">>), homeworld |-> PyStr(homeworld),
     gender |-> PyStr(<<"n", "/", "a">>),
     dialogue |-> PyList(<<PyStr(<<"h", "i">>)>>)]

\* a starships record of the API: its passengers field is a str
swapi_starship(name) ==
    [name |-> PyStr(name), model |-> PyStr(<<"C", "R", "9", "0">>),
     passengers |-> PyStr(<<"6", "0", "0">>),
     max_atmosphering_speed |-> PyStr(<<"9", "5", "0">>),
     length |-> PyStr(<<"1", "5", "0">>), crew |-> PyStr(<<"3", "0">>)]

sCorvette == <<"C", "R", "9", "0", " ", "c", "o", "r", "v", "e", "t", "t", "e">>
sDestroyer == <<"S", "t", "a", "r", " ", "D", "e", "s", "t", "r", "o", "y", "e", "r">>

PersonRecords ==
    {Restrict(swapi_person(sC3PO, hw), K) :
        hw \in {IdName, IdLocator}, K \in SUBSET (PersonKeys \cup {"gender"})}
StarshipRecords ==
    {Restrict(swapi_starship(sCorvette), K) : K \in SUBSET (StarshipKeys \cup {"crew"})}

\* create_person(person, url), body being the answer to get_homeworld's request
create_person(person, url, body) ==
    LET homeworld == get_homeworld(Get(person, "homeworld", PyNone), url, body)
    IN  IF homeworld.exc # ""
        THEN Raise(homeworld.exc)
        ELSE Return(PyDict(
                [name |-> Get(person, "name", EmptyStr),
                 height |-> Get(person, "height", EmptyStr),
                 mass |-> Get(person, "mass", EmptyStr),
                 birth_year |-> Get(person, "birth_year", EmptyStr),
                 eye_color |-> Get(person, "eye_color", EmptyStr),
                 homeworld |-> homeworld.val,
                 dialogue |-> PyList(<<>>)]))

\* create_starship reading passengers with get() like the other fields
create_starship_passengers_read(starship) ==
    Return(PyDict(
        [name |-> Get(starship, "name", EmptyStr),
         model |-> Get(starship, "model", EmptyStr),
         passengers |-> Get(starship, "passengers", PyList(<<>>)),
         max_atmosphering_speed |-> Get(starship, "max_atmosphering_speed", EmptyStr),
         length |-> Get(starship, "length", EmptyStr)]))

create_starship(starship) ==
    Return(PyDict(
        [name |-> Get(starship, "name", EmptyStr),
         model |-> Get(starship, "model", EmptyStr),
         passengers |-> PyList(<<>>),
         max_atmosphering_speed |-> Get(starship, "max_atmosphering_speed", EmptyStr),
         length |-> Get(starship, "length", EmptyStr)]))

----------------------------------------------------------------------------
(* Problem 10 projectors: one call of get_homeworld, create_person or
   create_starship on inputs drawn from the sets above *)

NoRecord == [k \in {} |-> PyNone]
Idle == [fn |-> "idle", identifier |-> PyNone, url |-> <<>>, record |-> NoRecord]

\* main is not running
NoFrame == [pc |-> "", exc |-> "", locals |-> NoRecord, written |-> PyNone]

InitProject ==
    /\ call = Idle
    /\ http = <<>>
    /\ result = Return(PyNone)
    /\ heap = <<>>
    /\ returned = Return(PyNone)
    /\ boarded = <<>>
    /\ captured = <<>>
    /\ inserted = <<>>
    /\ frame = NoFrame
    /\ data = <<>>
    /\ given = <<>>
    /\ out = Return(PyNone)

CallGetHomeworld ==
    /\ call.fn = "idle"
    /\ \E identifier \in IdStrings, url \in Urls :
        \E body \in homeworld_bodies(PyStr(identifier), url) :
            /\ call' = [fn |-> "get_homeworld", identifier |-> PyStr(identifier),
                        url |-> url, record |-> NoRecord]
            /\ http' = homeworld_http(PyStr(identifier), url, body)
            /\ result' = get_homeworld(PyStr(identifier), url, body)
    /\ UNCHANGED <<recordVars, articleVars>>

CallCreatePerson ==
    /\ call.fn = "idle"
    /\ \E person \in PersonRecords, url \in Urls :
        \E body \in homeworld_bodies(Get(person, "homeworld", PyNone), url) :
            /\ call' = [fn |-> "create_person",
                        identifier |-> Get(person, "homeworld", PyNone),
                        url |-> url, record |-> person]
            /\ http' = homeworld_http(Get(person, "homeworld", PyNone), url, body)
            /\ result' = create_person(person, url, body)
    /\ UNCHANGED <<recordVars, articleVars>>

CallCreateStarship ==
    /\ call.fn = "idle"
    /\ \E starship \in StarshipRecords :
            /\ call' = [fn |-> "create_starship", identifier |-> PyNone,
                        url |-> <<>>, record |-> starship]
            /\ http' = <<>>
            /\ result' = create_starship(starship)
    /\ UNCHANGED <<recordVars, articleVars>>

NextProject == CallGetHomeworld \/ CallCreatePerson \/ CallCreateStarship

SpecProject == InitProject /\ [][NextProject]_vars

----------------------------------------------------------------------------
(* Problem 10 projectors: the claims *)

\* the source record, the returned dict and the answered body of the call made
Source == call.record
Out == result.val.v
Body == http[1].body
Searched == Len(http) = 1 /\ http[1].request.params # NoParams

\* the planet record a name search found: the first of the envelope's results
Found == Body.results.v[1].v

\* C1: get_homeworld called with a planet name (not a locator) whose name
\* search finds the planet record P of that name (the first entry of the
\* envelope's results) returns exactly the five keys name, diameter, climate,
\* terrain, population, each with P's value.
C1_NameSearchReturnsPlanet ==
    (/\ call.fn = "get_homeworld"
     /\ ~StartsWith(Scheme, call.identifier.v)
     /\ Searched
     /\ Body.results.v # <<>>
     /\ "name" \in DOMAIN Found
     /\ Found["name"] = call.identifier)
        => /\ result.exc = ""
           /\ DOMAIN Out = PlanetKeys
           /\ \A k \in PlanetKeys :
                PyEq(Out[k], Get(Found, k, EmptyStr))

\* C2: get_homeworld fetches the identifier itself, with no parameters,
\* exactly when the identifier begins with "https://"; every other identifier
\* is searched by name against the supplied url with {"search": identifier}.
C2_LocatorIffPrefix ==
    call.fn = "get_homeworld"
        => /\ Len(http) = 1
           /\ http[1].request =
                IF StartsWith(Scheme, call.identifier.v)
                THEN [url |-> call.identifier.v, params |-> NoParams]
                ELSE [url |-> call.url, params |-> SearchParams(call.identifier.v)]

\* C3 as stated: create_starship(R) and create_person(R, url) return a record
\* whose key set is exactly the declared field set, every declared key that R
\* has holding R's value verbatim.
C3_DeclaredKeysVerbatim ==
    /\ call.fn = "create_starship"
        => /\ result.exc = ""
           /\ DOMAIN Out = StarshipKeys
           /\ \A k \in StarshipKeys \cap DOMAIN Source : PyEq(Out[k], Source[k])
    /\ (call.fn = "create_person" /\ result.exc = "")
        => /\ DOMAIN Out = PersonKeys
           /\ \A k \in PersonKeys \cap DOMAIN Source : PyEq(Out[k], Source[k])

StarshipCopied == {"name", "model", "max_atmosphering_speed", "length"}
PersonCopied == {"name", "height", "mass", "birth_year", "eye_color"}

\* C3 amended: the key set is exactly the declared field set; the fields read
\* with get() (name, model, max_atmosphering_speed, length; name, height,
\* mass, birth_year, eye_color) hold R's value verbatim when R has the key;
\* passengers and dialogue are the empty list whatever R holds; homeworld is
\* the thinned record get_homeworld returns.  create_starship always returns;
\* the statement covers create_person whenever it returns.
C3_ProjectionOfReadFields ==
    /\ call.fn = "create_starship"
        => /\ result.exc = ""
           /\ DOMAIN Out = StarshipKeys
           /\ \A k \in StarshipCopied \cap DOMAIN Source : PyEq(Out[k], Source[k])
           /\ Out["passengers"] = PyList(<<>>)
    /\ (call.fn = "create_person" /\ result.exc = "")
        => /\ DOMAIN Out = PersonKeys
           /\ \A k \in PersonCopied \cap DOMAIN Source : PyEq(Out[k], Source[k])
           /\ Out["dialogue"] = PyList(<<>>)
           /\ Out["homeworld"] = PyDict(thin(Body))

\* C3 witness: both projectors have returned for a source record that holds a
\* copied field and the field the projector overwrites
C3_Witness ==
    /\ result.exc = ""
    /\ \/ /\ call.fn = "create_starship"
          /\ {"name", "passengers"} \subseteq DOMAIN Source
          /\ "length" \notin DOMAIN Source
       \/ /\ call.fn = "create_person"
          /\ {"name", "dialogue", "homeworld"} \subseteq DOMAIN Source
          /\ "mass" \notin DOMAIN Source

\* C4: projection never fails because a source field is absent: whatever
\* declared fields R lacks (a person's homeworld included), create_person,
\* create_starship and the thinning of get_homeworld return a record in which
\* each absent field holds its default.
C4_AbsentFieldsNeverFail ==
    /\ call.fn \in {"create_person", "create_starship", "get_homeworld"}
        => result.exc = ""
    /\ call.fn = "create_person"
        => \A k \in PersonCopied \ DOMAIN Source : Out[k] = EmptyStr
    /\ call.fn = "create_starship"
        => \A k \in StarshipCopied \ DOMAIN Source : Out[k] = EmptyStr
    /\ call.fn = "get_homeworld"
        => \A k \in PlanetKeys \ DOMAIN Body : Out[k] = EmptyStr

----------------------------------------------------------------------------
(* Problem 10 records: dicts and lists live in the heap, a sequence of objects
   indexed by address; a value that names one is a reference.  The record
   returned by get_homeworld is never mutated and is kept as a nested value. *)

PyRef(a) == [t |-> "ref", v |-> a]

\* a new object, at address Len(h) + 1
Alloc(h, obj) == Append(h, obj)
\* d[key] = value on the dict at address a
SetItem(h, a, key, value) ==
    [h EXCEPT ![a] =
        PyDict([k \in (DOMAIN h[a].v) \cup {key} |-> IF k = key THEN value ELSE h[a].v[k]])]
\* l.append(value) on the list at address a
ListAppend(h, a, value) == [h EXCEPT ![a] = PyList(Append(h[a].v, value))]
\* l += values on the list at address a
ListExtend(h, a, values) == [h EXCEPT ![a] = PyList(h[a].v \o values)]

\* the dict d with its list-valued fields replaced by references
OnHeap(d, refs) == [k \in DOMAIN d |-> IF k \in DOMAIN refs THEN PyRef(refs[k]) ELSE d[k]]

\* the loop body assigning a new list whether or not the key exists
board_person_overwrite(h, starship, person, is_intruder) ==
    LET key == IF is_intruder THEN "intruder" ELSE "passengers"
    IN  SetItem(Alloc(h, PyList(<<person>>)), starship, key, PyRef(Len(h) + 1))

\* the loop body choosing the bucket by the person's own "intruder" field
board_person_own_field(h, starship, person, is_intruder) ==
    LET own == /\ h[person.v].t = "dict"
               /\ PyEq(Get(h[person.v].v, "intruder", PyNone), PyStr(<<"1">>))
        key == IF own THEN "intruder" ELSE "passengers"
    IN  IF key \in DOMAIN h[starship].v
        THEN ListAppend(h, h[starship].v[key].v, person)
        ELSE SetItem(Alloc(h, PyList(<<person>>)), starship, key, PyRef(Len(h) + 1))

\* the loop body storing a copy of the person's record, not the record
board_person_copy(h, starship, person, is_intruder) ==
    LET key == IF is_intruder THEN "intruder" ELSE "passengers"
        copied == Alloc(h, h[person.v])
        copy == PyRef(Len(h) + 1)
    IN  IF key \in DOMAIN h[starship].v
        THEN ListAppend(copied, h[starship].v[key].v, copy)
        ELSE SetItem(Alloc(copied, PyList(<<copy>>)), starship, key, PyRef(Len(h) + 2))

\* the body of the loop of board_starship
board_person(h, starship, person, is_intruder) ==
    IF is_intruder
    THEN IF "intruder" \in DOMAIN h[starship].v
         THEN ListAppend(h, h[starship].v["intruder"].v, person)
         ELSE SetItem(Alloc(h, PyList(<<person>>)), starship, "intruder", PyRef(Len(h) + 1))
    ELSE IF "passengers" \in DOMAIN h[starship].v
         THEN ListAppend(h, h[starship].v["passengers"].v, person)
         ELSE SetItem(Alloc(h, PyList(<<person>>)), starship, "passengers", PyRef(Len(h) + 1))

RECURSIVE board_loop(_, _, _)
board_loop(h, starship, people) ==
    IF people = <<>>
    THEN h
    ELSE board_loop(board_person(h, starship, people[1][1], people[1][2]),
                    starship, Tail(people))

board_starship(h, starship, people) ==
    [heap |-> board_loop(h, starship, people), ret |-> Return(PyRef(starship))]

\* capture_starship assigning a new docking bay on every call
capture_starship_overwrite(h, attacker, prey) ==
    [heap |-> SetItem(Alloc(Alloc(h, PyList(<<prey>>)),
                            PyDict([docked |-> PyRef(Len(h) + 1)])),
                      attacker, "primary_docking_bay", PyRef(Len(h) + 2)),
     ret |-> Return(PyRef(attacker))]

capture_starship(h, attacker, prey) ==
    [heap |->
        IF "primary_docking_bay" \notin DOMAIN h[attacker].v
        THEN SetItem(Alloc(Alloc(h, PyList(<<prey>>)),
                           PyDict([docked |-> PyRef(Len(h) + 1)])),
                     attacker, "primary_docking_bay", PyRef(Len(h) + 2))
        ELSE ListAppend(h, h[h[attacker].v["primary_docking_bay"].v].v["docked"].v, prey),
     ret |-> Return(PyRef(attacker))]

\* the items of the dialogue dict at address table, in insertion order
DialogueOrder == <<sC3PO, sR2D2, sVader>>
dialogue_items(h, table) ==
    [i \in 1..Len(DialogueOrder) |-> <<DialogueOrder[i], h[table].v[DialogueOrder[i]]>>]

\* person["dialogue"] = lines
extend_dialogue_replace(h, person, lines) == SetItem(h, person, "dialogue", lines)

\* person["dialogue"] += lines

extend_dialogue(h, person, lines) ==
    SetItem(ListExtend(h, h[person].v["dialogue"].v, h[lines.v].v),
            person, "dialogue", h[person].v["dialogue"])

RECURSIVE dialogue_loop(_, _, _)
dialogue_loop(h, person, items) ==
    IF items = <<>>
    THEN [heap |-> h, ret |-> Return(PyRef(person))]
    ELSE IF PyEq(Get(h[person].v, "name", PyNone), PyStr(items[1][1]))
         THEN IF "dialogue" \notin DOMAIN h[person].v
              THEN [heap |-> h, ret |-> Raise("KeyError")]
              ELSE dialogue_loop(extend_dialogue(h, person, items[1][2]), person, Tail(items))
         ELSE dialogue_loop(h, person, Tail(items))

insert_dialogue(h, person, table) == dialogue_loop(h, person, dialogue_items(h, table))

----------------------------------------------------------------------------
(* Problem 10 records: the objects main builds before it boards, captures and
   inserts, and the calls made on them *)

\* bound: the number of boarded persons, captures and dialogue insertions
MaxOps == 3

\* addresses
Dialogue == 1
LinesC3PO == 2
LinesR2D2 == 3
LinesVader == 4
RebelBlockade == 5
RebelPassengers == 6
StarDestroyer == 7
DestroyerPassengers == 8
EmptyShip == 9
C3PO == 10
DialogueC3PO == 11
Vader == 12
DialogueVader == 13
Trooper == 14
Leia == 15
DialogueLeia == 16

Line(who, n) == PyStr(<<who, n>>)

\* the module's dialogue table, its lines shortened to a speaker and a number
dialogue ==
    [name \in {sC3PO, sR2D2, sVader} |->
        IF name = sC3PO THEN PyRef(LinesC3PO)
        ELSE IF name = sR2D2 THEN PyRef(LinesR2D2) ELSE PyRef(LinesVader)]
lines_c3po == <<Line("c", "1"), Line("c", "2"), Line("c", "3"),
                Line("c", "4"), Line("c", "5"), Line("c", "6")>>
lines_r2d2 == <<Line("r", "1"), Line("r", "2"), Line("r", "3")>>
lines_vader == <<Line("v", "1")>>

\* a row of data-troopers.csv as main reshapes it
trooper ==
    [person |-> PyStr(<<"T", "K">>), weapon |-> PyStr(<<"E", "1", "1">>),
     intruder |-> PyStr(<<"1">>)]

InitialHeap ==
    <<PyDict(dialogue), PyList(lines_c3po), PyList(lines_r2d2), PyList(lines_vader),
      PyDict(OnHeap(create_starship(swapi_starship(sCorvette)).val.v,
                    [passengers |-> RebelPassengers])),
      PyList(<<>>),
      PyDict(OnHeap(create_starship(swapi_starship(sDestroyer)).val.v,
                    [passengers |-> DestroyerPassengers])),
      PyList(<<>>),
      PyDict(NoRecord),
      PyDict(OnHeap(create_person(swapi_person(sC3PO, IdLocator), SWAPI_PEOPLE, Tatooine).val.v,
                    [dialogue |-> DialogueC3PO])),
      PyList(<<>>),
      PyDict(OnHeap(create_person(swapi_person(sVader, IdLocator), SWAPI_PEOPLE, Tatooine).val.v,
                    [dialogue |-> DialogueVader])),
      PyList(<<>>),
      PyDict(trooper),
      PyDict(OnHeap(create_person(swapi_person(sLeia, IdLocator), SWAPI_PEOPLE, Naboo).val.v,
                    [dialogue |-> DialogueLeia])),
      PyList(<<>>)>>

Boardable == {RebelBlockade, EmptyShip}
Attackers == {StarDestroyer}
Preys == {RebelBlockade, EmptyShip}
People == {C3PO, Vader, Trooper}
Speakers == People \cup {Leia}

\* a call on the records: the function, the address of its first argument
\* and what it returned or raised
Called(fn, target, ret) == [fn |-> fn, target |-> target, exc |-> ret.exc, val |-> ret.val]

Used ==
    Len(boarded[RebelBlockade]) + Len(boarded[EmptyShip]) + Len(captured[StarDestroyer])
        + inserted[C3PO] + inserted[Vader] + inserted[Trooper] + inserted[Leia]

InitRecords ==
    /\ call = Idle
    /\ http = <<>>
    /\ result = Return(PyNone)
    /\ heap = InitialHeap
    /\ returned = Called("", 0, Return(PyNone))
    /\ boarded = [s \in Boardable |-> <<>>]
    /\ captured = [s \in Attackers |-> <<>>]
    /\ inserted = [p \in Speakers |-> 0]
    /\ frame = NoFrame
    /\ data = <<>>
    /\ given = <<>>
    /\ out = Return(PyNone)

\* board_starship(starship, people)
Board ==
    \E starship \in Boardable, n \in 0..(MaxOps - Used) :
        \E chosen \in [1..n -> People \X BOOLEAN] :
            LET people == [i \in 1..n |-> <<PyRef(chosen[i][1]), chosen[i][2]>>]
                done == board_starship(heap, starship, people)
            IN  /\ heap' = done.heap
                /\ returned' = Called("board_starship", starship, done.ret)
                /\ boarded' = [boarded EXCEPT ![starship] = @ \o people]
                /\ UNCHANGED <<captured, inserted, frame, projectVars, articleVars>>

\* capture_starship(attacker, prey)
Capture ==
    /\ Used < MaxOps
    /\ \E attacker \in Attackers, prey \in Preys :
        LET done == capture_starship(heap, attacker, PyRef(prey))
        IN  /\ heap' = done.heap
            /\ returned' = Called("capture_starship", attacker, done.ret)
            /\ captured' = [captured EXCEPT ![attacker] = Append(@, PyRef(prey))]
            /\ UNCHANGED <<boarded, inserted, frame, projectVars, articleVars>>

\* insert_dialogue(person, dialogue)
InsertDialogue ==
    /\ Used < MaxOps
    /\ \E person \in Speakers :
        LET done == insert_dialogue(heap, person, Dialogue)
        IN  /\ heap' = done.heap
            /\ returned' = Called("insert_dialogue", person, done.ret)
            /\ inserted' = [inserted EXCEPT ![person] = @ + 1]
            /\ UNCHANGED <<boarded, captured, frame, projectVars, articleVars>>

NextRecords == Board \/ Capture \/ InsertDialogue

SpecRecords == InitRecords /\ [][NextRecords]_vars

----------------------------------------------------------------------------
(* Problem 10 records: the claims *)

\* the list a bucket of the dict at address a holds (empty when there is none)
Bucket(h, a, key) == IF key \in DOMAIN h[a].v THEN h[h[a].v[key].v].v ELSE <<>>

\* of the boarded pairs, the persons paired with flag, in call order
RECURSIVE Flagged(_, _)
Flagged(pairs, flag) ==
    IF pairs = <<>>
    THEN <<>>
    ELSE (IF pairs[1][2] = flag THEN <<pairs[1][1]>> ELSE <<>>) \o Flagged(Tail(pairs), flag)

Count(seq, x) == Cardinality({i \in 1..Len(seq) : seq[i] = x})

\* C5: after any sequence of board_starship calls on a record made by
\* create_starship or on an empty record, the passengers bucket is exactly the
\* persons boarded with a false flag and the intruder bucket exactly those
\* boarded with a true flag, in call order across the calls; a bucket the
\* record did not have exists from its first insertion on.
C5_BucketsInCallOrder ==
    \A s \in Boardable :
        /\ Bucket(heap, s, "passengers") = Flagged(boarded[s], FALSE)
        /\ Bucket(heap, s, "intruder") = Flagged(boarded[s], TRUE)
        /\ "intruder" \in DOMAIN heap[s].v <=> Flagged(boarded[s], TRUE) # <<>>
        /\ "passengers" \in DOMAIN heap[s].v
            <=> \/ "passengers" \in DOMAIN InitialHeap[s].v
                \/ Flagged(boarded[s], FALSE) # <<>>
        /\ \A key \in {"passengers", "intruder"} \cap DOMAIN heap[s].v :
            heap[s].v[key].t = "ref" /\ heap[heap[s].v[key].v].t = "list"

\* C5 witness: three boardings of the empty record: the passengers bucket was
\* created and appended to, the intruder bucket created
C5_Witness ==
    /\ returned.fn = "board_starship"
    /\ Bucket(heap, EmptyShip, "passengers") = <<PyRef(C3PO), PyRef(Vader)>>
    /\ Bucket(heap, EmptyShip, "intruder") = <<PyRef(Trooper)>>

\* C6: board_starship partitions its input: every boarded item is in exactly
\* one of the buckets passengers and intruder, as often as it was boarded, the
\* bucket lengths sum to the number of boarded pairs, the bucket is the one of
\* the paired flag whatever the item's own "intruder" field says, and every
\* other key of the starship is unchanged.
C6_PartitionByFlag ==
    \A s \in Boardable :
        LET P == Bucket(heap, s, "passengers")
            I == Bucket(heap, s, "intruder")
        IN  /\ Len(P) + Len(I) = Len(boarded[s])
            /\ \A p \in People :
                /\ Count(P, PyRef(p)) = Count(boarded[s], <<PyRef(p), FALSE>>)
                /\ Count(I, PyRef(p)) = Count(boarded[s], <<PyRef(p), TRUE>>)
            /\ DOMAIN heap[s].v \subseteq
                    (DOMAIN InitialHeap[s].v) \cup {"passengers", "intruder"}
            /\ \A k \in (DOMAIN InitialHeap[s].v) \ {"passengers", "intruder"} :
                k \in DOMAIN heap[s].v /\ PyEq(heap[s].v[k], InitialHeap[s].v[k])

\* C6 witness: on the empty record, the trooper whose own "intruder" field is
\* "1" boarded with flag False and C-3PO boarded with flag True
C6_Witness ==
    /\ boarded[EmptyShip] = <<<<PyRef(Trooper), FALSE>>, <<PyRef(C3PO), TRUE>>>>
    /\ Bucket(heap, EmptyShip, "passengers") = <<PyRef(Trooper)>>
    /\ Bucket(heap, EmptyShip, "intruder") = <<PyRef(C3PO)>>
    /\ heap[Trooper].v["intruder"] = PyStr(<<"1">>)

\* the docked list of the attacker at address a
Docked(h, a) == h[h[h[a].v["primary_docking_bay"].v].v["docked"].v].v

\* C7: capture_starship creates the attacker's primary_docking_bay as
\* {"docked": [prey]} on the first capture and appends to docked afterwards:
\* after N captures docked holds the N preys in call order; no other key of
\* the attacker changes, and the attacker is returned.
C7_DockedInCallOrder ==
    /\ \A a \in Attackers :
        /\ "primary_docking_bay" \in DOMAIN heap[a].v <=> captured[a] # <<>>
        /\ captured[a] # <<>> =>
            /\ DOMAIN heap[heap[a].v["primary_docking_bay"].v].v = {"docked"}
            /\ Docked(heap, a) = captured[a]
        /\ DOMAIN heap[a].v \subseteq (DOMAIN InitialHeap[a].v) \cup {"primary_docking_bay"}
        /\ \A k \in DOMAIN InitialHeap[a].v :
            k \in DOMAIN heap[a].v /\ PyEq(heap[a].v[k], InitialHeap[a].v[k])
    /\ returned.fn = "capture_starship"
        => returned.exc = "" /\ returned.val = PyRef(returned.target)

\* C7 witness: three captures by the same attacker
C7_Witness ==
    /\ returned.fn = "capture_starship"
    /\ Docked(heap, StarDestroyer) = <<PyRef(RebelBlockade), PyRef(EmptyShip), PyRef(RebelBlockade)>>

\* lines, n times over
RECURSIVE Repeat(_, _)
Repeat(lines, n) == IF n = 0 THEN <<>> ELSE lines \o Repeat(lines, n - 1)

\* the table's lines for the person at address p (none when no key matches)
LinesFor(p) ==
    IF "name" \in DOMAIN InitialHeap[p].v /\ InitialHeap[p].v["name"].v \in DOMAIN dialogue
    THEN InitialHeap[dialogue[InitialHeap[p].v["name"].v].v].v
    ELSE <<>>

\* C8: insert_dialogue appends: a person whose name is a key of the table has
\* as dialogue its previous content followed by all the key's lines, once per
\* call; a person no key matches is unchanged; the table is unchanged.
C8_DialogueAppended ==
    /\ \A p \in Speakers :
        /\ "dialogue" \in DOMAIN InitialHeap[p].v =>
            Bucket(heap, p, "dialogue")
                = Bucket(InitialHeap, p, "dialogue") \o Repeat(LinesFor(p), inserted[p])
        /\ LinesFor(p) = <<>> => heap[p] = InitialHeap[p]
        /\ DOMAIN heap[p].v = DOMAIN InitialHeap[p].v
    /\ \A a \in {Dialogue, LinesC3PO, LinesR2D2, LinesVader} : heap[a] = InitialHeap[a]
    /\ returned.fn = "insert_dialogue"
        => returned.exc = "" /\ returned.val = PyRef(returned.target)

\* C8 witness: insert_dialogue called twice on C-3PO, once on Leia (no key
\* matches her name)
C8_Witness ==
    /\ inserted[C3PO] = 2
    /\ inserted[Leia] = 1
    /\ Bucket(heap, C3PO, "dialogue") = lines_c3po \o lines_c3po
    /\ Bucket(heap, Leia, "dialogue") = <<>>

----------------------------------------------------------------------------
(* Problem 9: the article records *)

\* bound: the number of articles in the list
MaxArticles == 3

sOrganizations == <<"o", "r", "g", "a", "n", "i", "z", "a", "t", "i", "o", "n", "s">>
sGlocations == <<"g", "l", "o", "c", "a", "t", "i", "o", "n", "s">>
sApple == <<"A", "p", "p", "l", "e">>
sGoogle == <<"G", "o", "o", "g", "l", "e">>
sMeta == <<"M", "e", "t", "a">>
sCalif == <<"C", "a", "l", "i", "f">>

Keyword(name, value) == PyDict([name |-> PyStr(name), value |-> value])
Org(value) == Keyword(sOrganizations, value)
Person(firstname, lastname) == PyDict([firstname |-> firstname, lastname |-> lastname])

ada == Person(PyStr(<<"a", "d", "a">>), PyStr(<<"b", "o">>))
ADA == Person(PyStr(<<"A", "D", "A">>), PyStr(<<"B", "O">>))
bob == Person(PyStr(<<"b", "o", "b">>), PyStr(<<"o", "'", "d", "a">>))
anonymous == Person(PyStr(<<"a", "d", "a">>), PyNone)

\* an article of data-nyt-articles-tech.json
Article(n, keywords, persons) ==
    [abstract |-> PyStr(<<"a", n>>), web_url |-> PyStr(Scheme \o <<n>>),
     headline |-> PyDict([main |-> PyStr(<<"h", n>>)]),
     keywords |-> PyList(keywords),
     byline |-> PyDict([person |-> PyList(persons)]),
     pub_date |-> PyStr(<<"2", "0", "2", n>>)]

Articles ==
    {Article("1", <<Org(PyStr(sApple)), Org(PyStr(sGoogle))>>, <<ada>>),
     Article("2", <<Org(PyStr(sApple)), Org(PyStr(sMeta))>>, <<ADA, bob>>),
     Article("3", <<Org(PyNone), Keyword(sGlocations, PyStr(sCalif))>>, <<bob, bob>>),
     Article("1", <<Keyword(sGlocations, PyStr(sCalif))>>, <<>>),
     Article("2", <<Org(PyStr(sMeta))>>, <<anonymous>>),
     Restrict(Article("3", <<Org(PyStr(sMeta)), Org(PyStr(sMeta))>>, <<bob>>),
              {"headline", "keywords", "byline"}),
     Restrict(Article("1", <<Org(PyStr(sGoogle))>>, <<ada>>),
              {"web_url", "keywords", "pub_date"})}

ArticleLists == UNION {[1..n -> Articles] : n \in 0..MaxArticles}

\* the keys_to_exclude lists: main's, none, a repeated key, every key
main_keys_to_exclude ==
    <<"abstract", "web_url", "snippet", "lead_paragraph", "source", "document_type",
      "news_desk", "type_of_material">>
ExcludeLists ==
    {main_keys_to_exclude, <<>>, <<"keywords", "keywords">>,
     <<"abstract", "web_url", "headline", "keywords", "byline", "pub_date">>}

\* x in list
InList(x, list) == \E i \in 1..Len(list) : PyEq(list[i], x)
InKeys(k, keys) == \E i \in 1..Len(keys) : keys[i] = k

----------------------------------------------------------------------------
(* Problem 9: filter_articles, format_author_name, get_author_names,
   get_organization_names and the accumulation loops of main *)

\* filter_articles keeping the keys it should drop
filter_articles_keep(articles, keys_to_exclude) ==
    [data |-> articles,
     ret |-> Return([i \in 1..Len(articles) |->
                [k \in {k \in DOMAIN articles[i] : InKeys(k, keys_to_exclude)} |->
                    articles[i][k]]])]

\* filter_articles(data, keys_to_exclude): the returned list and the
\* argument as the call leaves it
filter_articles(articles, keys_to_exclude) ==
    [data |-> articles,
     ret |-> Return([i \in 1..Len(articles) |->
                [k \in {k \in DOMAIN articles[i] : ~InKeys(k, keys_to_exclude)} |->
                    articles[i][k]]])]

\* str.title() on the letters the names use
LowerCase == <<"a", "b", "d", "o">>
UpperCase == <<"A", "B", "D", "O">>
IsCased(c) == \E i \in 1..Len(LowerCase) : c = LowerCase[i] \/ c = UpperCase[i]
ToUpper(c) ==
    IF \E i \in 1..Len(LowerCase) : c = LowerCase[i]
    THEN UpperCase[CHOOSE i \in 1..Len(LowerCase) : c = LowerCase[i]]
    ELSE c
ToLower(c) ==
    IF \E i \in 1..Len(UpperCase) : c = UpperCase[i]
    THEN LowerCase[CHOOSE i \in 1..Len(UpperCase) : c = UpperCase[i]]
    ELSE c
title(s) ==
    [i \in 1..Len(s) |-> IF i > 1 /\ IsCased(s[i - 1]) THEN ToLower(s[i]) ELSE ToUpper(s[i])]

\* format_author_name(person): a missing name is a KeyError, a null name has
\* no title()
format_author_name(person) ==
    IF ~({"lastname", "firstname"} \subseteq DOMAIN person)
    THEN Raise("KeyError")
    ELSE IF person["lastname"].t # "str" \/ person["firstname"].t # "str"
         THEN Raise("AttributeError")
         ELSE Return(PyStr(title(person["lastname"].v) \o <<",", " ">>
                            \o title(person["firstname"].v)))

RECURSIVE format_all(_)
format_all(persons) ==
    IF persons = <<>>
    THEN Return(<<>>)
    ELSE LET first == format_author_name(persons[1].v)
             rest == format_all(Tail(persons))
         IN  IF first.exc # "" THEN Raise(first.exc)
             ELSE IF rest.exc # "" THEN Raise(rest.exc)
             ELSE Return(<<first.val>> \o rest.val)

get_author_names(article) ==
    IF "byline" \notin DOMAIN article THEN Raise("KeyError")
    ELSE IF "person" \notin DOMAIN article["byline"].v THEN Raise("KeyError")
    ELSE format_all(article["byline"].v["person"].v)

RECURSIVE organization_values(_)
organization_values(keywords) ==
    IF keywords = <<>>
    THEN Return(<<>>)
    ELSE LET keyword == keywords[1].v
             rest == organization_values(Tail(keywords))
         IN  IF "name" \notin DOMAIN keyword THEN Raise("KeyError")
             ELSE IF ~PyEq(keyword["name"], PyStr(sOrganizations)) THEN rest
             ELSE IF "value" \notin DOMAIN keyword THEN Raise("KeyError")
             ELSE IF rest.exc # "" THEN Raise(rest.exc)
             ELSE Return(<<keyword["value"]>> \o rest.val)

get_organization_names(article) ==
    organization_values(Get(article, "keywords", PyList(<<>>)).v)

\* the inner loops of main: append what is not yet in the list
RECURSIVE append_new_names(_, _)
append_new_names(tech_organizations, org_names) ==
    IF org_names = <<>>
    THEN tech_organizations
    ELSE append_new_names(
            IF ~InList(org_names[1], tech_organizations)
            THEN Append(tech_organizations, org_names[1])
            ELSE tech_organizations,
            Tail(org_names))

RECURSIVE append_new_authors(_, _)
append_new_authors(unique_authors, authors) ==
    IF authors = <<>>
    THEN unique_authors
    ELSE append_new_authors(
            IF authors[1].t # "None" /\ ~InList(authors[1], unique_authors)
            THEN Append(unique_authors, authors[1])
            ELSE unique_authors,
            Tail(authors))

\* the outer loops of main over the articles
RECURSIVE unique_organizations(_, _)
unique_organizations(tech_organizations, articles) ==
    IF articles = <<>>
    THEN Return(tech_organizations)
    ELSE LET org_names == get_organization_names(articles[1])
         IN  IF org_names.exc # ""
             THEN Raise(org_names.exc)
             ELSE unique_organizations(
                    IF org_names.val # <<>>
                    THEN append_new_names(tech_organizations, org_names.val)
                    ELSE tech_organizations,
                    Tail(articles))

RECURSIVE unique_authors_of(_, _)
unique_authors_of(unique_authors, articles) ==
    IF articles = <<>>
    THEN Return(unique_authors)
    ELSE LET authors == get_author_names(articles[1])
         IN  IF authors.exc # ""
             THEN Raise(authors.exc)
             ELSE unique_authors_of(
                    IF authors.val # <<>>
                    THEN append_new_authors(unique_authors, authors.val)
                    ELSE unique_authors,
                    Tail(articles))

----------------------------------------------------------------------------
(* Problem 9: a list of articles is loaded, then the operations run on it *)

Ran(fn, keys, ret) == [fn |-> fn, keys |-> keys, exc |-> ret.exc, val |-> ret.val]

InitArticles ==
    /\ call = Idle
    /\ http = <<>>
    /\ result = Return(PyNone)
    /\ heap = <<>>
    /\ returned = Return(PyNone)
    /\ boarded = <<>>
    /\ captured = <<>>
    /\ inserted = <<>>
    /\ frame = NoFrame
    /\ data \in ArticleLists
    /\ given = data
    /\ out = Ran("", <<>>, Return(<<>>))

FilterArticles ==
    \E keys_to_exclude \in ExcludeLists :
        LET done == filter_articles(data, keys_to_exclude)
        IN  /\ data' = done.data
            /\ out' = Ran("filter_articles", keys_to_exclude, done.ret)
            /\ UNCHANGED <<given, projectVars, recordVars>>

UniqueOrganizations ==
    /\ out' = Ran("tech_organizations", <<>>, unique_organizations(<<>>, data))
    /\ UNCHANGED <<data, given, projectVars, recordVars>>

UniqueAuthors ==
    /\ out' = Ran("unique_authors", <<>>, unique_authors_of(<<>>, data))
    /\ UNCHANGED <<data, given, projectVars, recordVars>>

NextArticles == FilterArticles \/ UniqueOrganizations \/ UniqueAuthors

SpecArticles == InitArticles /\ [][NextArticles]_vars

----------------------------------------------------------------------------
(* Problem 9: the claims *)

\* what the extractor yields over the articles, in order
RECURSIVE Yielded(_, _)
Yielded(fn, articles) ==
    IF articles = <<>>
    THEN <<>>
    ELSE (IF fn = "tech_organizations"
          THEN get_organization_names(articles[1]).val
          ELSE get_author_names(articles[1]).val) \o Yielded(fn, Tail(articles))

\* the values of a sequence that are not null, each at its first occurrence
RECURSIVE FirstSeen(_, _)
FirstSeen(seen, values) ==
    IF values = <<>>
    THEN seen
    ELSE FirstSeen(IF values[1].t = "None" \/ InList(values[1], seen)
                   THEN seen
                   ELSE Append(seen, values[1]),
                   Tail(values))

\* C9: the accumulation loops of main (unique tech organizations, unique
\* authors) give a sequence without two equal elements, in the order of first
\* occurrence over the articles, and without null values: a null organization
\* value is never added.
C9_UniqueFirstSeenNoNull ==
    (out.fn \in {"tech_organizations", "unique_authors"} /\ out.exc = "")
        => /\ \A i, j \in 1..Len(out.val) : PyEq(out.val[i], out.val[j]) => i = j
           /\ \A i \in 1..Len(out.val) : out.val[i].t # "None"
           /\ out.val = FirstSeen(<<>>, Yielded(out.fn, data))

Range(seq) == {seq[i] : i \in 1..Len(seq)}

\* C10: filter_articles returns one record per input record, in input order,
\* whose keys are the input record's keys minus the excluded ones, with the
\* values unchanged; with no excluded key the result equals the input; the
\* input records are not modified.
C10_FilterDropsExcludedKeys ==
    /\ data = given
    /\ out.fn = "filter_articles"
        => /\ out.exc = ""
           /\ Len(out.val) = Len(given)
           /\ \A i \in 1..Len(given) :
                /\ DOMAIN out.val[i] = (DOMAIN given[i]) \ Range(out.keys)
                /\ \A k \in DOMAIN out.val[i] : out.val[i][k] = given[i][k]
           /\ out.keys = <<>> => out.val = given

\* C10 witness: main's exclusion list on three articles, the first losing its
\* abstract and web_url and keeping its keywords
C10_Witness ==
    /\ out.fn = "filter_articles"
    /\ out.keys = main_keys_to_exclude
    /\ Len(given) = 3
    /\ {"abstract", "web_url", "keywords"} \subseteq DOMAIN given[1]
    /\ DOMAIN out.val[1] = {"headline", "keywords", "byline", "pub_date"}
    /\ DOMAIN given[2] = {"web_url", "keywords", "pub_date"}

----------------------------------------------------------------------------
(* Problem 9: convert_published_date_value, create_headline_url_list,
   remove_empty_keywords_articles, get_news_by_location and
   show_archival_status *)

\* bound: the number of articles in the list these operations run on
MaxNews == 3

sTexas == <<"T", "e", "x", "a", "s">>
sCalifornia == <<"C", "a", "l", "i", "f", "o", "r", "n", "i", "a">>
Glocation(value) == Keyword(sGlocations, PyStr(value))

\* a datetime object, of which the operations read the year only
PyDatetime(year) == [t |-> "datetime", v |-> year]

\* bool(x) of a Python value
Truthy(x) ==
    CASE x.t = "None" -> FALSE
      [] x.t = "dict" -> DOMAIN x.v # {}
      [] x.t \in {"str", "list"} -> Len(x.v) > 0
      [] OTHER -> TRUE

\* datetime.strptime(value, "%Y-..."): the year field is four decimal digits
Digits == <<"0", "1", "2", "3", "4", "5", "6", "7", "8", "9">>
IsDigit(c) == \E i \in 1..Len(Digits) : Digits[i] = c
DigitValue(c) == (CHOOSE i \in 1..Len(Digits) : Digits[i] = c) - 1
strptime(value) ==
    IF value.t # "str" THEN Raise("TypeError")
    ELSE IF Len(value.v) # 4 \/ \E i \in 1..Len(value.v) : ~IsDigit(value.v[i])
    THEN Raise("ValueError")
    ELSE Return(PyDatetime(1000 * DigitValue(value.v[1]) + 100 * DigitValue(value.v[2])
                            + 10 * DigitValue(value.v[3]) + DigitValue(value.v[4])))

\* convert_published_date_value(data): the articles are converted in place,
\* one after the other, up to the first that cannot be
RECURSIVE convert_loop(_, _)
convert_loop(articles, i) ==
    IF i > Len(articles)
    THEN [data |-> articles, ret |-> Return(articles)]
    ELSE IF "pub_date" \notin DOMAIN articles[i]
    THEN convert_loop(articles, i + 1)
    ELSE LET parsed == strptime(articles[i]["pub_date"])
         IN  IF parsed.exc # ""
             THEN [data |-> articles, ret |-> Raise(parsed.exc)]
             ELSE convert_loop(
                    [articles EXCEPT ![i] = [@ EXCEPT !["pub_date"] = parsed.val]],
                    i + 1)

convert_published_date_value(articles) == convert_loop(articles, 1)

\* create_headline_url_list(data): a (headline, url) tuple for each article
RECURSIVE create_headline_url_list(_)
create_headline_url_list(articles) ==
    IF articles = <<>>
    THEN Return(<<>>)
    ELSE LET article == articles[1]
             rest == create_headline_url_list(Tail(articles))
         IN  IF "headline" \notin DOMAIN article THEN Raise("KeyError")
             ELSE IF "main" \notin DOMAIN article["headline"].v THEN Raise("KeyError")
             ELSE IF "web_url" \notin DOMAIN article THEN Raise("KeyError")
             ELSE IF rest.exc # "" THEN Raise(rest.exc)
             ELSE Return(<<<<article["headline"].v["main"], article["web_url"]>>>>
                            \o rest.val)

\* remove_empty_keywords_articles(data)
RECURSIVE remove_empty_keywords_articles(_)
remove_empty_keywords_articles(articles) ==
    IF articles = <<>>
    THEN Return(<<>>)
    ELSE LET article == articles[1]
             rest == remove_empty_keywords_articles(Tail(articles))
         IN  IF "keywords" \notin DOMAIN article THEN Raise("KeyError")
             ELSE IF rest.exc # "" THEN Raise(rest.exc)
             ELSE IF Truthy(article["keywords"]) THEN Return(<<article>> \o rest.val)
             ELSE rest

\* the test of get_news_by_location's generator without its name half
glocation_matches_any_name(keyword, location) ==
    IF "value" \notin DOMAIN keyword THEN Raise("KeyError")
    ELSE IF keyword["value"].t # "str" THEN Raise("TypeError")
    ELSE Return(Contains(location, keyword["value"].v))

\* keyword["name"] == "glocations" and location in keyword["value"]
glocation_matches(keyword, location) ==
    IF "name" \notin DOMAIN keyword THEN Raise("KeyError")
    ELSE IF ~PyEq(keyword["name"], PyStr(sGlocations)) THEN Return(FALSE)
    ELSE IF "value" \notin DOMAIN keyword THEN Raise("KeyError")
    ELSE IF keyword["value"].t # "str" THEN Raise("TypeError")
    ELSE Return(Contains(location, keyword["value"].v))

\* any(... for keyword in keywords): stops at the first keyword that matches
RECURSIVE any_glocation(_, _)
any_glocation(keywords, location) ==
    IF keywords = <<>>
    THEN Return(FALSE)
    ELSE LET first == glocation_matches(keywords[1].v, location)
         IN  IF first.exc # "" THEN first
             ELSE IF first.val THEN first
             ELSE any_glocation(Tail(keywords), location)

\* get_news_by_location(data, location)
RECURSIVE get_news_by_location(_, _)
get_news_by_location(articles, location) ==
    IF articles = <<>>
    THEN Return(<<>>)
    ELSE LET found == any_glocation(Get(articles[1], "keywords", PyList(<<>>)).v, location)
             rest == get_news_by_location(Tail(articles), location)
         IN  IF found.exc # "" THEN Raise(found.exc)
             ELSE IF rest.exc # "" THEN Raise(rest.exc)
             ELSE IF found.val THEN Return(<<articles[1]>> \o rest.val)
             ELSE rest

sActive == <<"A", "c", "t", "i", "v", "e">>
sArchived == <<"A", "r", "c", "h", "i", "v", "e", "d">>

\* the comparison of show_archival_status turned around
archival_label_before(year, active_year_threshold) ==
    IF year <= active_year_threshold THEN PyStr(sActive) ELSE PyStr(sArchived)

\* "Active" if year >= active_year_threshold else "Archived"
archival_label(year, active_year_threshold) ==
    IF year >= active_year_threshold THEN PyStr(sActive) ELSE PyStr(sArchived)

\* show_archival_status(data, active_year_threshold): the condition reads
\* pub_date.year before either branch reads the headline
RECURSIVE show_archival_status(_, _)
show_archival_status(articles, active_year_threshold) ==
    IF articles = <<>>
    THEN Return(<<>>)
    ELSE LET article == articles[1]
             rest == show_archival_status(Tail(articles), active_year_threshold)
         IN  IF "pub_date" \notin DOMAIN article THEN Raise("KeyError")
             ELSE IF article["pub_date"].t # "datetime" THEN Raise("AttributeError")
             ELSE IF "headline" \notin DOMAIN article THEN Raise("KeyError")
             ELSE IF "main" \notin DOMAIN article["headline"].v THEN Raise("KeyError")
             ELSE IF rest.exc # "" THEN Raise(rest.exc)
             ELSE Return(<<<<article["headline"].v["main"],
                             archival_label(article["pub_date"].v, active_year_threshold)>>>>
                            \o rest.val)

----------------------------------------------------------------------------
(* Problem 9: the articles the location and status operations run on, well
   formed and with fields missing *)

WithoutKeys(article, keys) == Restrict(article, (DOMAIN article) \ keys)

NewsArticles ==
    {Article("1", <<Glocation(sCalif)>>, <<ada>>),
     Article("2", <<Org(PyStr(sApple)), Glocation(sCalifornia)>>, <<bob>>),
     Article("3", <<Org(PyStr(sCalif)), Glocation(sTexas)>>, <<ada, bob>>),
     Article("2", <<Glocation(sTexas), Glocation(sCalif), Glocation(sCalifornia)>>, <<>>),
     Article("3", <<>>, <<bob>>),
     WithoutKeys(Article("1", <<Glocation(sCalif)>>, <<ada>>), {"keywords", "web_url"}),
     WithoutKeys(Article("2", <<Glocation(sTexas)>>, <<ada>>), {"headline", "byline"}),
     [Article("3", <<Glocation(sCalif)>>, <<bob>>)
        EXCEPT !["headline"] = PyDict([kicker |-> PyNone]),
               !["byline"] = PyDict([original |-> PyNone])],
     Article("2", <<Glocation(sCalif), PyDict([value |-> PyStr(sCalif)])>>, <<ada>>),
     Article("3", <<PyDict([name |-> PyStr(sOrganizations)]),
                    PyDict([name |-> PyStr(sGlocations)])>>, <<bob>>)}

NewsLists == UNION {[1..n -> NewsArticles] : n \in 0..MaxNews}

Locations == {sCalif, sTexas}
Thresholds == {2022, 2023}

InitNews ==
    /\ call = Idle
    /\ http = <<>>
    /\ result = Return(PyNone)
    /\ heap = <<>>
    /\ returned = Return(PyNone)
    /\ boarded = <<>>
    /\ captured = <<>>
    /\ inserted = <<>>
    /\ frame = NoFrame
    /\ data \in NewsLists
    /\ given = data
    /\ out = Ran("", <<>>, Return(<<>>))

\* the operations below read the list as it was loaded or as the conversion
\* left it
Readable == out.fn \in {"", "convert_published_date_value"}

ConvertPublishedDate ==
    LET done == convert_published_date_value(data)
    IN  /\ Readable
        /\ data' = done.data
        /\ out' = Ran("convert_published_date_value", <<>>, done.ret)
        /\ UNCHANGED <<given, projectVars, recordVars>>

CreateHeadlineUrlList ==
    /\ Readable
    /\ out' = Ran("create_headline_url_list", <<>>, create_headline_url_list(data))
    /\ UNCHANGED <<data, given, projectVars, recordVars>>

RemoveEmptyKeywords ==
    /\ Readable
    /\ out' = Ran("remove_empty_keywords_articles", <<>>,
                  remove_empty_keywords_articles(data))
    /\ UNCHANGED <<data, given, projectVars, recordVars>>

GetNewsByLocation ==
    \E location \in Locations :
        /\ Readable
        /\ out' = Ran("get_news_by_location", location,
                      get_news_by_location(data, location))
        /\ UNCHANGED <<data, given, projectVars, recordVars>>

ShowArchivalStatus ==
    \E active_year_threshold \in Thresholds :
        /\ Readable
        /\ out' = Ran("show_archival_status", <<active_year_threshold>>,
                      show_archival_status(data, active_year_threshold))
        /\ UNCHANGED <<data, given, projectVars, recordVars>>

GetAuthorNames ==
    \E i \in 1..Len(data) :
        /\ Readable
        /\ out' = Ran("get_author_names", <<i>>, get_author_names(data[i]))
        /\ UNCHANGED <<data, given, projectVars, recordVars>>

GetOrganizationNames ==
    \E i \in 1..Len(data) :
        /\ Readable
        /\ out' = Ran("get_organization_names", <<i>>, get_organization_names(data[i]))
        /\ UNCHANGED <<data, given, projectVars, recordVars>>

NextNews ==
    \/ ConvertPublishedDate
    \/ CreateHeadlineUrlList
    \/ RemoveEmptyKeywords
    \/ GetNewsByLocation
    \/ ShowArchivalStatus
    \/ GetAuthorNames
    \/ GetOrganizationNames

SpecNews == InitNews /\ [][NextNews]_vars

----------------------------------------------------------------------------
(* Problem 9: the claims on the location and status operations *)

\* the article has what show_archival_status reads: a converted pub_date and
\* a headline with its main text
HasStatusFields(article) ==
    /\ "pub_date" \in DOMAIN article
    /\ article["pub_date"].t = "datetime"
    /\ "headline" \in DOMAIN article
    /\ "main" \in DOMAIN article["headline"].v

\* C11: show_archival_status(data, threshold), on articles with a converted
\* pub_date and a headline, returns exactly one (headline, label) pair per
\* article, in input order; the label is "Active" if the publication year is
\* greater than or equal to the threshold and "Archived" otherwise, and no
\* other label occurs.
C11_ArchivalStatusByYear ==
    (/\ out.fn = "show_archival_status"
     /\ \A i \in 1..Len(data) : HasStatusFields(data[i]))
        => /\ out.exc = ""
           /\ Len(out.val) = Len(data)
           /\ \A i \in 1..Len(data) :
                /\ Len(out.val[i]) = 2
                /\ out.val[i][1] = data[i]["headline"].v["main"]
                /\ out.val[i][2] \in {PyStr(sActive), PyStr(sArchived)}
                /\ out.val[i][2] = PyStr(sActive)
                    <=> data[i]["pub_date"].v >= out.keys[1]

\* C11 witness: publication years 2021, 2022, 2023 with threshold 2022 give
\* Archived, Active, Active
C11_Witness ==
    /\ out.fn = "show_archival_status"
    /\ out.exc = ""
    /\ out.keys = <<2022>>
    /\ Len(data) = 3
    /\ \A i \in 1..3 : HasStatusFields(data[i])
    /\ [i \in 1..3 |-> data[i]["pub_date"].v] = <<2021, 2022, 2023>>
    /\ [i \in 1..3 |-> out.val[i][2]] = <<PyStr(sArchived), PyStr(sActive), PyStr(sActive)>>

\* the fields create_headline_url_list reads are all there
HasHeadlineUrl(article) ==
    /\ "headline" \in DOMAIN article
    /\ "main" \in DOMAIN article["headline"].v
    /\ "web_url" \in DOMAIN article

\* the articles of a list that have a headline and a url, in order
RECURSIVE WithHeadlineUrl(_)
WithHeadlineUrl(articles) ==
    IF articles = <<>> THEN <<>>
    ELSE (IF HasHeadlineUrl(articles[1]) THEN <<articles[1]>> ELSE <<>>)
            \o WithHeadlineUrl(Tail(articles))

\* the path byline.person of the article is there
HasPersons(article) ==
    /\ "byline" \in DOMAIN article
    /\ "person" \in DOMAIN article["byline"].v

\* the organization values of the keywords that have both name and value
RECURSIVE NamedOrganizations(_)
NamedOrganizations(keywords) ==
    IF keywords = <<>> THEN <<>>
    ELSE (IF /\ {"name", "value"} \subseteq DOMAIN keywords[1].v
             /\ PyEq(keywords[1].v["name"], PyStr(sOrganizations))
          THEN <<keywords[1].v["value"]>>
          ELSE <<>>) \o NamedOrganizations(Tail(keywords))

\* C12: the field-extraction operations never fail on an absent nested field
\* path, and the record (or keyword) with the absent path contributes nothing:
\* create_headline_url_list returns the pairs of the articles that have
\* headline.main and web_url; get_author_names returns the empty list for an
\* article without byline.person; get_organization_names returns the values of
\* the organization keywords that have both name and value, none for an
\* article without keywords.
C12_AbsentPathNeverFails ==
    /\ out.fn = "create_headline_url_list"
        => /\ out.exc = ""
           /\ out.val = [i \in 1..Len(WithHeadlineUrl(data)) |->
                            <<WithHeadlineUrl(data)[i]["headline"].v["main"],
                              WithHeadlineUrl(data)[i]["web_url"]>>]
    /\ out.fn = "get_author_names"
        => /\ out.exc = ""
           /\ ~HasPersons(data[out.keys[1]]) => out.val = <<>>
    /\ out.fn = "get_organization_names"
        => /\ out.exc = ""
           /\ out.val = NamedOrganizations(
                            Get(data[out.keys[1]], "keywords", PyList(<<>>)).v)

\* the keyword has name and a text value, is a "glocations" keyword and its
\* value contains the location
IsGlocationOf(keyword, location) ==
    /\ {"name", "value"} \subseteq DOMAIN keyword
    /\ PyEq(keyword["name"], PyStr(sGlocations))
    /\ keyword["value"].t = "str"
    /\ Contains(location, keyword["value"].v)

\* some keyword of the article places it at the location
AtLocation(article, location) ==
    /\ "keywords" \in DOMAIN article
    /\ \E k \in 1..Len(article["keywords"].v) :
            IsGlocationOf(article["keywords"].v[k].v, location)

\* the article has a keywords list that is not empty
HasKeywords(article) ==
    /\ "keywords" \in DOMAIN article
    /\ Truthy(article["keywords"])

\* the order-preserving subsequence of the indices 1..n that satisfy Keep
RECURSIVE Kept(_, _, _)
Kept(Keep(_), i, n) ==
    IF i > n THEN <<>>
    ELSE (IF Keep(i) THEN <<i>> ELSE <<>>) \o Kept(Keep, i + 1, n)

\* C13: a filter predicate evaluated against missing fields is false:
\* remove_empty_keywords_articles raises nothing and returns the articles that
\* have a non-empty keywords list, dropping an article without "keywords";
\* get_news_by_location raises nothing and returns the articles with a
\* glocations keyword containing the location, dropping an article without
\* "keywords" and passing over keyword entries that lack "name" or "value".
C13_MissingFieldsAreFalse ==
    /\ out.fn = "remove_empty_keywords_articles"
        => /\ out.exc = ""
           /\ LET kept == Kept(LAMBDA i : HasKeywords(data[i]), 1, Len(data))
              IN  out.val = [j \in 1..Len(kept) |-> data[kept[j]]]
    /\ out.fn = "get_news_by_location"
        => /\ out.exc = ""
           /\ LET kept == Kept(LAMBDA i : AtLocation(data[i], out.keys), 1, Len(data))
              IN  out.val = [j \in 1..Len(kept) |-> data[kept[j]]]

\* the article has a keywords list whose entries all have a name and a text
\* value
WellFormed(article) ==
    /\ "keywords" \in DOMAIN article
    /\ \A k \in 1..Len(article["keywords"].v) :
            /\ {"name", "value"} \subseteq DOMAIN article["keywords"].v[k].v
            /\ article["keywords"].v[k].v["name"].t = "str"
            /\ article["keywords"].v[k].v["value"].t = "str"

\* the number of keywords of the article that place it at the location
Matches(article, location) ==
    Cardinality({k \in 1..Len(article["keywords"].v) :
                    IsGlocationOf(article["keywords"].v[k].v, location)})

\* C14: for well-formed articles, get_news_by_location(data, location) returns
\* the order-preserving subsequence of data of exactly the articles with at
\* least one keyword named "glocations" whose value contains location as a
\* substring; a keyword of another name containing the location, or a
\* glocations keyword without the substring, does not select the article, and
\* a selected article appears once however many of its keywords match.
C14_NewsByLocationSubsequence ==
    (/\ out.fn = "get_news_by_location"
     /\ \A i \in 1..Len(data) : WellFormed(data[i]))
        => /\ out.exc = ""
           /\ \E pick \in [1..Len(out.val) -> 1..Len(data)] :
                /\ \A j \in 1..Len(out.val) : out.val[j] = data[pick[j]]
                /\ \A j, k \in 1..Len(out.val) : j < k => pick[j] < pick[k]
                /\ \A i \in 1..Len(data) :
                        (\E j \in 1..Len(out.val) : pick[j] = i)
                            <=> Matches(data[i], out.keys) >= 1

\* C14 witness: with location "Calif", an article with several matching
\* keywords, then one whose only "Calif" is an organization and whose
\* glocation is Texas, then one with one matching keyword: the first and the
\* third are returned, once each
C14_Witness ==
    /\ out.fn = "get_news_by_location"
    /\ out.exc = ""
    /\ out.keys = sCalif
    /\ Len(data) = 3
    /\ \A i \in 1..3 : WellFormed(data[i])
    /\ Matches(data[1], sCalif) = 2
    /\ \E k \in 1..Len(data[2]["keywords"].v) :
            data[2]["keywords"].v[k] = Org(PyStr(sCalif))
    /\ \E k \in 1..Len(data[2]["keywords"].v) :
            data[2]["keywords"].v[k] = Glocation(sTexas)
    /\ Matches(data[3], sCalif) = 1
    /\ out.val = <<data[1], data[3]>>

----------------------------------------------------------------------------
(* Problem 10 main: the statements of main in their order, on the records it
   creates; the answers of the API and the rows of data-troopers.csv are the
   inputs *)

\* bound: the number of rows of data-troopers.csv
MaxTroopers == 2

sNewHope == <<"A", " ", "N", "e", "w", " ", "H", "o", "p", "e">>
sEscapePod == <<"e", "s", "c", "a", "p", "e", "_", "p", "o", "d">>

\* the films record the search for "new hope" finds
swapi_new_hope ==
    [title |-> PyStr(sNewHope), episode_id |-> PyInt(4),
     opening_crawl |-> PyStr(<<"I", "t", " ", "i", "s">>),
     director |-> PyStr(<<"L", "u", "c", "a", "s">>),
     release_date |-> PyStr(<<"1", "9", "7", "7">>),
     producer |-> PyStr(<<"K", "u", "r", "t", "z">>)]

\* the dict literal of TODO 2.1
new_hope_of(film) ==
    [title |-> Get(film, "title", EmptyStr),
     episode_id |-> Get(film, "episode_id", EmptyStr),
     opening_crawl |-> Get(film, "opening_crawl", EmptyStr),
     director |-> Get(film, "director", EmptyStr),
     release_date |-> Get(film, "release_date", EmptyStr),
     starships |-> PyList(<<>>)]

\* a row of data-troopers.csv as main reshapes it, and its flag
trooper_row(flag) == [trooper EXCEPT !["intruder"] = PyStr(<<flag>>)]
bool_int(flag) == flag # "0"

\* the record d enters the heap: its list under key gets an address of its
\* own, the dict the next one
NewRecord(h, d, key) ==
    Alloc(Alloc(h, d[key]), PyDict(OnHeap(d, [k \in {key} |-> Len(h) + 1])))

\* json.dump(data): the document, every reference followed
RECURSIVE write_json(_, _)
write_json(h, x) ==
    IF x.t = "ref" THEN write_json(h, h[x.v])
    ELSE IF x.t = "dict" THEN PyDict([k \in DOMAIN x.v |-> write_json(h, x.v[k])])
    ELSE IF x.t = "list" THEN PyList([i \in 1..Len(x.v) |-> write_json(h, x.v[i])])
    ELSE x

\* main goes on to the next statement, assigns a local variable, ends on an
\* exception
Goto(f, pc) == [f EXCEPT !.pc = pc]
Bind(f, name, value) ==
    [f EXCEPT !.locals =
        [k \in (DOMAIN f.locals) \cup {name} |-> IF k = name THEN value ELSE f.locals[k]]]
Fail(f, exc) == [f EXCEPT !.pc = "raised", !.exc = exc]
Local(name) == frame.locals[name]

InitMain ==
    /\ call = Idle
    /\ http = <<>>
    /\ result = Return(PyNone)
    /\ heap = <<PyDict(dialogue), PyList(lines_c3po), PyList(lines_r2d2), PyList(lines_vader)>>
    /\ returned = Return(PyNone)
    /\ boarded = <<>>
    /\ captured = <<>>
    /\ inserted = <<>>
    /\ frame = [pc |-> "new_hope", exc |-> "", locals |-> NoRecord, written |-> PyNone]
    /\ data = <<>>
    /\ given = <<>>
    /\ out = Return(PyNone)

\* TODO 1.2 - 2.1: the first film found becomes new_hope
MainNewHope ==
    /\ frame.pc = "new_hope"
    /\ \E results \in {<<>>, <<swapi_new_hope>>} :
        IF results = <<>>
        THEN /\ frame' = Fail(frame, "IndexError")
             /\ UNCHANGED heap
        ELSE /\ heap' = NewRecord(heap, new_hope_of(results[1]), "starships")
             /\ frame' = Goto(Bind(frame, "new_hope", PyRef(Len(heap) + 2)), "starships")
    /\ UNCHANGED <<returned, boarded, captured, inserted, projectVars, articleVars>>

\* TODO 3.3 - 3.4: rebel_blockade and stardestroyer
MainStarships ==
    /\ frame.pc = "starships"
    /\ LET h1 == NewRecord(heap, create_starship(swapi_starship(sCorvette)).val.v,
                           "passengers")
           h2 == NewRecord(h1, create_starship(swapi_starship(sDestroyer)).val.v,
                           "passengers")
       IN  /\ heap' = h2
           /\ frame' = Goto(Bind(Bind(frame, "rebel_blockade", PyRef(Len(h1))),
                                 "stardestroyer", PyRef(Len(h2))), "people")
    /\ UNCHANGED <<returned, boarded, captured, inserted, projectVars, articleVars>>

\* TODO 4.3 - 5.3: the droids and Leia; the planets endpoint answers the
\* homeworld locators, and main asserts the droids' homeworlds
MainPeople ==
    /\ frame.pc = "people"
    /\ \E hw_r2d2, hw_c3po, hw_leia \in {Tatooine, Naboo} :
        LET r2d2 == create_person(swapi_person(sR2D2, IdLocator), SWAPI_PEOPLE, hw_r2d2)
            c3po == create_person(swapi_person(sC3PO, IdLocator), SWAPI_PEOPLE, hw_c3po)
            leia == create_person(swapi_person(sLeia, IdLocator), SWAPI_PEOPLE, hw_leia)
            h1 == NewRecord(heap, r2d2.val.v, "dialogue")
            h2 == NewRecord(h1, c3po.val.v, "dialogue")
            h3 == NewRecord(h2, leia.val.v, "dialogue")
        IN  IF \/ get_homeworld(PyStr(IdLocator), SWAPI_PEOPLE, hw_r2d2).val.v # thin(Naboo)
               \/ get_homeworld(PyStr(IdLocator), SWAPI_PEOPLE, hw_c3po).val.v # thin(Tatooine)
            THEN /\ frame' = Fail(frame, "AssertionError")
                 /\ UNCHANGED heap
            ELSE /\ heap' = h3
                 /\ frame' = Goto(Bind(Bind(Bind(frame, "r2d2", PyRef(Len(h1))),
                                            "c3po", PyRef(Len(h2))),
                                       "leia", PyRef(Len(h3))), "board_people")
    /\ UNCHANGED <<returned, boarded, captured, inserted, projectVars, articleVars>>

\* TODO 6.3 - 6.4
MainBoardPeople ==
    /\ frame.pc = "board_people"
    /\ LET people == <<<<Local("r2d2"), FALSE>>, <<Local("c3po"), FALSE>>,
                       <<Local("leia"), FALSE>>>>
       IN  heap' = board_starship(heap, Local("rebel_blockade").v, people).heap
    /\ frame' = Goto(frame, "board_troopers")
    /\ UNCHANGED <<returned, boarded, captured, inserted, projectVars, articleVars>>

\* the rows enter the heap one after the other
RECURSIVE AllocRows(_, _)
AllocRows(h, flags) ==
    IF flags = <<>> THEN h
    ELSE AllocRows(Alloc(h, PyDict(trooper_row(flags[1]))), Tail(flags))

\* TODO 7.1 - 7.3: the troopers of data-troopers.csv board
MainBoardTroopers ==
    /\ frame.pc = "board_troopers"
    /\ \E n \in 0..MaxTroopers :
        \E flags \in [1..n -> {"0", "1"}] :
            LET h1 == AllocRows(heap, flags)
                trooper_list ==
                    [i \in 1..n |-> <<PyRef(Len(heap) + i), bool_int(flags[i])>>]
            IN  heap' = board_starship(h1, Local("rebel_blockade").v, trooper_list).heap
    /\ frame' = Goto(frame, "capture")
    /\ UNCHANGED <<returned, boarded, captured, inserted, projectVars, articleVars>>

\* TODO 8.2
MainCapture ==
    /\ frame.pc = "capture"
    /\ heap' = capture_starship(heap, Local("stardestroyer").v, Local("rebel_blockade")).heap
    /\ frame' = Goto(frame, "dialogue_droids")
    /\ UNCHANGED <<returned, boarded, captured, inserted, projectVars, articleVars>>

\* TODO 9.2: insert_dialogue on r2d2, then on c3po
MainDialogueDroids ==
    /\ frame.pc = "dialogue_droids"
    /\ LET first == insert_dialogue(heap, Local("r2d2").v, Dialogue)
           second == insert_dialogue(first.heap, Local("c3po").v, Dialogue)
       IN  IF first.ret.exc # ""
           THEN heap' = first.heap /\ frame' = Fail(frame, first.ret.exc)
           ELSE IF second.ret.exc # ""
           THEN heap' = second.heap /\ frame' = Fail(frame, second.ret.exc)
           ELSE heap' = second.heap /\ frame' = Goto(frame, "vader")
    /\ UNCHANGED <<returned, boarded, captured, inserted, projectVars, articleVars>>

\* TODO 10.1.1 - 10.1.3: vader is created and boards as an intruder
MainVader ==
    /\ frame.pc = "vader"
    /\ \E hw_vader \in {Tatooine, Naboo} :
        LET vader == create_person(swapi_person(sVader, IdLocator), SWAPI_PEOPLE, hw_vader)
            h1 == NewRecord(heap, vader.val.v, "dialogue")
            people == <<<<PyRef(Len(h1)), TRUE>>>>
        IN  /\ heap' = board_starship(h1, Local("rebel_blockade").v, people).heap
            /\ frame' = Goto(Bind(frame, "vader", PyRef(Len(h1))), "dialogue_vader")
    /\ UNCHANGED <<returned, boarded, captured, inserted, projectVars, articleVars>>

\* TODO 10.1.4
MainDialogueVader ==
    /\ frame.pc = "dialogue_vader"
    /\ LET done == insert_dialogue(heap, Local("vader").v, Dialogue)
       IN  /\ heap' = done.heap
           /\ frame' = IF done.ret.exc # "" THEN Fail(frame, done.ret.exc)
                       ELSE Goto(frame, "append_starship")
    /\ UNCHANGED <<returned, boarded, captured, inserted, projectVars, articleVars>>

\* TODO 11.1: new_hope["starships"].append(stardestroyer)
MainAppendStarship ==
    /\ frame.pc = "append_starship"
    /\ heap' = ListAppend(heap, heap[Local("new_hope").v].v["starships"].v,
                          Local("stardestroyer"))
    /\ frame' = Goto(frame, "end_vessel")
    /\ UNCHANGED <<returned, boarded, captured, inserted, projectVars, articleVars>>

\* TODO 11.2: droids = [r2d2, c3po], each gets its end_vessel
MainEndVessel ==
    /\ frame.pc = "end_vessel"
    /\ LET h1 == Alloc(heap, PyList(<<Local("r2d2"), Local("c3po")>>))
           h2 == SetItem(h1, Local("r2d2").v, "end_vessel", PyStr(sEscapePod))
       IN  /\ heap' = SetItem(h2, Local("c3po").v, "end_vessel", PyStr(sEscapePod))
           /\ frame' = Goto(Bind(frame, "droids", PyRef(Len(h1))), "escaped_passengers")
    /\ UNCHANGED <<returned, boarded, captured, inserted, projectVars, articleVars>>

\* TODO 11.3: new_hope["escaped_passengers"] = droids
MainEscapedPassengers ==
    /\ frame.pc = "escaped_passengers"
    /\ heap' = SetItem(heap, Local("new_hope").v, "escaped_passengers", Local("droids"))
    /\ frame' = Goto(frame, "write_json")
    /\ UNCHANGED <<returned, boarded, captured, inserted, projectVars, articleVars>>

\* TODO 11.4: write_json("stu-newhope_final.json", new_hope)
MainWriteJson ==
    /\ frame.pc = "write_json"
    /\ frame' = [Goto(frame, "done") EXCEPT !.written = write_json(heap, Local("new_hope"))]
    /\ UNCHANGED <<heap, returned, boarded, captured, inserted, projectVars, articleVars>>

NextMain ==
    \/ MainNewHope
    \/ MainStarships
    \/ MainPeople
    \/ MainBoardPeople
    \/ MainBoardTroopers
    \/ MainCapture
    \/ MainDialogueDroids
    \/ MainVader
    \/ MainDialogueVader
    \/ MainAppendStarship
    \/ MainEndVessel
    \/ MainEscapedPassengers
    \/ MainWriteJson

SpecMain == InitMain /\ [][NextMain]_vars

----------------------------------------------------------------------------
(* Problem 10 main: the claim *)

\* the parts of the document written to stu-newhope_final.json
Written == frame.written.v
DockedShip == Written["starships"].v[1].v["primary_docking_bay"].v["docked"].v[1].v
Passengers == DockedShip["passengers"].v
Intruders == DockedShip["intruder"].v
Escaped == Written["escaped_passengers"].v

\* C15: records are shared, not copied, when placed in a bucket: in the final
\* new_hope written by main, the r2d2 and c3po entries under
\* starships[0].primary_docking_bay.docked[0].passengers are equal to the
\* entries under escaped_passengers, with their dialogue lines and end_vessel
\* "escape_pod", and the vader entry of the intruder bucket carries his
\* dialogue line, although insert_dialogue and the end_vessel assignments ran
\* after the boarding and the capture; while main runs, the buckets hold the
\* very records the local variables name.
C15_SharedRecordsInFinalNewHope ==
    /\ frame.pc \in {"board_troopers", "capture", "dialogue_droids", "vader",
                     "dialogue_vader", "append_starship", "end_vessel",
                     "escaped_passengers", "write_json", "done"}
        => SubSeq(Bucket(heap, Local("rebel_blockade").v, "passengers"), 1, 3)
                = <<Local("r2d2"), Local("c3po"), Local("leia")>>
    /\ frame.pc = "done"
        => /\ Escaped = <<Passengers[1], Passengers[2]>>
           /\ Passengers[1].v["name"] = PyStr(sR2D2)
           /\ Passengers[1].v["dialogue"] = PyList(lines_r2d2)
           /\ Passengers[1].v["end_vessel"] = PyStr(sEscapePod)
           /\ Passengers[2].v["name"] = PyStr(sC3PO)
           /\ Passengers[2].v["dialogue"] = PyList(lines_c3po)
           /\ Passengers[2].v["end_vessel"] = PyStr(sEscapePod)
           /\ Intruders[Len(Intruders)].v["name"] = PyStr(sVader)
           /\ Intruders[Len(Intruders)].v["dialogue"] = PyList(lines_vader)
           /\ Intruders[Len(Intruders)] = write_json(heap, Local("vader"))

\* C15 witness: main has written the final document; a trooper boarded as a
\* passenger and one as an intruder before vader did
C15_Witness ==
    /\ frame.pc = "done"
    /\ frame.exc = ""
    /\ Len(Passengers) = 4
    /\ Len(Intruders) = 2
    /\ Len(Escaped) = 2
    /\ Escaped[1].v["end_vessel"] = PyStr(sEscapePod)
    /\ Intruders[2].v["dialogue"] = PyList(lines_vader)
====
